---- MODULE Spec2Model ----
(***************************************************************************)
(* Model of CartridgesWindow (src/window.py): the view stack, the search   *)
(* filter, the placeholder selection, the sort comparator and the undo     *)
(* registry of the main window.                                            *)
(*                                                                         *)
(* Strings are sequences of code points, so that str.lower(), the `in`     *)
(* substring test and the ordering of str are computed, not assumed.       *)
(* An Optional value is <<>> (None) or <<v>>.                              *)
(***************************************************************************)
EXTENDS Integers, Sequences, FiniteSets, TLC

VARIABLES
    store,                    \* shared.store: the games, in iteration order
    visible_child,            \* self.stack.get_visible_child()
    previous_page,            \* self.previous_page
    show_hidden_enabled,      \* enabled state of the "show_hidden" action
    search_text,              \* self.search_entry.get_text()
    hidden_search_text,       \* self.hidden_search_entry.get_text()
    library_bin_child,        \* self.library_bin.get_child()
    hidden_library_bin_child, \* self.hidden_library_bin.get_child()
    sort_state,               \* self.sort_state
    toasts,                   \* self.toasts: the keys, in insertion order
    importer,                 \* shared.importer
    entered_from,             \* the page that was visible when Details was entered
    item1,                    \* the two items the list widget hands to sort_func
    item2,
    library_sorted_by,        \* the sort_state the library was last sorted under
    hidden_library_sorted_by, \* the same for the hidden library
    focus,                    \* self.get_focus(): the widget that has the focus
    search_mode,              \* self.search_bar.get_search_mode()
    hidden_search_mode,       \* self.hidden_search_bar.get_search_mode()
    lastOp                    \* the handler that ran last: arguments, result, error

vars == <<store, visible_child, previous_page, show_hidden_enabled,
          search_text, hidden_search_text, library_bin_child,
          hidden_library_bin_child, sort_state, toasts, importer, entered_from,
          item1, item2, library_sorted_by, hidden_library_sorted_by, focus,
          search_mode, hidden_search_mode, lastOp>>

(***************************************************************************)
(* Bounds                                                                  *)
(***************************************************************************)
MaxGames == 2   \* games in the store
MaxLen == 2     \* length of the names handed to the comparator

(***************************************************************************)
(* Python values                                                           *)
(***************************************************************************)
None == <<>>

Some(v) == <<v>>

\* "A", "a", "B": two letters, one of them in both cases
Alphabet == {65, 97, 66}

\* str.lower() on one character
LowerChar(c) == IF c \in 65..90 THEN c + 32 ELSE c

\* str.lower()
Lower(s) == [i \in 1..Len(s) |-> LowerChar(s[i])]

\* t in s, for two str
Contains(t, s) ==
    \E i \in 0..(Len(s) - Len(t)) : SubSeq(s, i + 1, i + Len(t)) = t

\* s > t, for two str: the first differing code point decides, a proper
\* prefix is the smaller
RECURSIVE StrGreater(_, _)
StrGreater(s, t) ==
    IF s = <<>> THEN FALSE
    ELSE IF t = <<>> THEN TRUE
    ELSE IF Head(s) # Head(t) THEN Head(s) > Head(t)
    ELSE StrGreater(Tail(s), Tail(t))

\* str(n) for an int n >= 0
RECURSIVE StrInt(_)
StrInt(n) ==
    IF n < 10 THEN <<48 + n>> ELSE StrInt(n \div 10) \o <<48 + (n % 10)>>

\* str(v) for an Optional[int]: str(None) is "None"
StrOptInt(v) == IF v = None THEN <<78, 111, 110, 101>> ELSE StrInt(v[1])

\* bool(s) for an Optional[str]: None and "" are falsy
Truthy(v) == v # None /\ v[1] # <<>>

(***************************************************************************)
(* sort_func                                                               *)
(***************************************************************************)
SortStates == {"a-z", "z-a", "newest", "oldest", "last_played"}

\* the names, added and last_played values of the items handed to sort_func
Names == UNION {[1..n -> Alphabet] : n \in 1..MaxLen}

AddedValues == {9, 10}

LastPlayedValues == {None, Some(9), Some(10), Some(11)}

Items == [name : Names, added : AddedValues, last_played : LastPlayedValues]

\* var, order as chosen from self.sort_state
sort_key_last_played_false ==
    IF sort_state \in {"newest", "oldest"}
    THEN [var |-> "added", order |-> sort_state = "newest"]
    ELSE IF sort_state = "last_played"
    THEN [var |-> "last_played", order |-> FALSE]
    ELSE IF sort_state = "a-z"
    THEN [var |-> "name", order |-> FALSE]
    ELSE [var |-> "name", order |-> TRUE]

sort_key ==
    IF sort_state \in {"newest", "oldest"}
    THEN [var |-> "added", order |-> sort_state = "newest"]
    ELSE IF sort_state = "last_played"
    THEN [var |-> "last_played", order |-> TRUE]
    ELSE IF sort_state = "a-z"
    THEN [var |-> "name", order |-> FALSE]
    ELSE [var |-> "name", order |-> TRUE]

\* str(getattr(game, var))
StrAttr(game, var) ==
    IF var = "name" THEN game.name
    ELSE IF var = "added" THEN StrInt(game.added)
    ELSE StrOptInt(game.last_played)

get_value_no_lower(game, var) == StrAttr(game, var)

\* get_value(index), with the pair's member passed in place of its index
get_value(game, var) == Lower(StrAttr(game, var))

sort_func(child1, child2) ==
    LET first == sort_key
        tie == first.var # "name"
               /\ get_value(child1, first.var) = get_value(child2, first.var)
        var == IF tie THEN "name" ELSE first.var
        order == IF tie THEN TRUE ELSE first.order
        greater == StrGreater(get_value(child1, var), get_value(child2, var))
    IN  (IF greater # order THEN 1 ELSE 0) * 2 - 1

(***************************************************************************)
(* Initial state                                                           *)
(***************************************************************************)
InitWindow ==
    /\ visible_child = "library_view"
    /\ previous_page = "library_view"
    /\ show_hidden_enabled = TRUE
    /\ search_text = <<>>
    /\ hidden_search_text = <<>>
    /\ sort_state = "a-z"
    /\ library_sorted_by = "a-z"
    /\ hidden_library_sorted_by = "a-z"
    /\ toasts = <<>>
    /\ importer = "absent"
    /\ entered_from = "library_view"
    /\ focus = "none"
    /\ search_mode = FALSE
    /\ hidden_search_mode = FALSE
    /\ lastOp = [op |-> "__init__"]

(***************************************************************************)
(* The comparator, called by the list widget on two of its items           *)
(***************************************************************************)
InitSort ==
    /\ InitWindow
    /\ store = <<>>
    /\ library_bin_child = "notice_empty"
    /\ hidden_library_bin_child = "hidden_notice_empty"
    /\ item1 \in Items
    /\ item2 \in Items

on_sort_action(state) ==
    /\ sort_state' = state
    /\ library_sorted_by' = state
    /\ lastOp' = [op |-> "on_sort_action", state |-> state]
    /\ UNCHANGED <<store, visible_child, previous_page,
                   show_hidden_enabled, search_text, hidden_search_text,
                   library_bin_child, hidden_library_bin_child, toasts, importer,
                   entered_from, item1, item2, hidden_library_sorted_by,
                   focus, search_mode, hidden_search_mode>>

\* the list widget compares two of its items
SortItems ==
    /\ lastOp' = [op |-> "sort_func", ret |-> sort_func(item1, item2)]
    /\ UNCHANGED <<store, visible_child, previous_page,
                   show_hidden_enabled, search_text, hidden_search_text,
                   library_bin_child, hidden_library_bin_child, sort_state, toasts,
                   importer, entered_from, item1, item2,
                   library_sorted_by, hidden_library_sorted_by,
                   focus, search_mode, hidden_search_mode>>

NextSort ==
    \/ \E state \in SortStates : on_sort_action(state)
    \/ SortItems

SpecSort == InitSort /\ [][NextSort]_vars

(***************************************************************************)
(* The store                                                               *)
(***************************************************************************)
\* the name of the i-th game: "Ab", "b", then "A"
GameName(i) == IF i = 1 THEN <<65, 98>> ELSE IF i = 2 THEN <<98>> ELSE <<65>>

\* the developer of the i-th game: None, "Ba", then ""
GameDeveloper(i) ==
    IF i = 1 THEN None ELSE IF i = 2 THEN Some(<<66, 97>>) ELSE Some(<<>>)

\* what the user types into a search entry: "", "aB", "bA"
Queries == {<<>>, <<97, 66>>, <<98, 65>>}

GameFlags == [hidden : BOOLEAN, removed : BOOLEAN, blacklisted : BOOLEAN]

\* a store of MaxGames games, none of them filtered yet
Stores ==
    {[i \in 1..MaxGames |->
        [name |-> GameName(i), developer |-> GameDeveloper(i),
         hidden |-> f[i].hidden, removed |-> f[i].removed,
         blacklisted |-> f[i].blacklisted, filtered |-> FALSE]] :
     f \in [1..MaxGames -> GameFlags]}

\* the games a library shows: the hidden library the hidden ones, the library
\* the others, neither a removed or blacklisted one
Shown(game) == ~game.removed /\ ~game.blacklisted

DefaultItem == [name |-> <<65>>, added |-> 9, last_played |-> None]

(***************************************************************************)
(* set_library_child                                                       *)
(***************************************************************************)
\* one iteration of the loop, children = <<child, hidden_child>>
library_child_step_overwrite(children, game) ==
    IF game.removed \/ game.blacklisted THEN children
    ELSE IF game.hidden
    THEN IF game.filtered
         THEN <<children[1], "hidden_notice_no_results">>
         ELSE <<children[1], "hidden_scrolledwindow">>
    ELSE IF game.filtered
         THEN <<"notice_no_results", children[2]>>
         ELSE <<"scrolledwindow", children[2]>>

library_child_step(children, game) ==
    IF game.removed \/ game.blacklisted THEN children
    ELSE IF game.hidden
    THEN IF game.filtered /\ children[2] # "hidden_scrolledwindow"
         THEN <<children[1], "hidden_notice_no_results">>
         ELSE <<children[1], "hidden_scrolledwindow">>
    ELSE IF game.filtered /\ children[1] # "scrolledwindow"
         THEN <<"notice_no_results", children[2]>>
         ELSE <<"scrolledwindow", children[2]>>

\* the loop over shared.store
RECURSIVE library_children(_, _)
library_children(games, children) ==
    IF games = <<>> THEN children
    ELSE library_children(Tail(games), library_child_step(children, Head(games)))

\* <<child, hidden_child>> as set_library_child hands them to the two bins
set_library_child(games) ==
    library_children(games, <<"notice_empty", "hidden_notice_empty">>)

(***************************************************************************)
(* filter_func                                                             *)
(***************************************************************************)
\* the text filter_func reads
filter_text ==
    Lower(IF visible_child = "hidden_library_view"
          THEN hidden_search_text
          ELSE search_text)

\* the value filter_func computes for `filtered`
is_filtered(game, text) ==
    text # <<>>
    /\ ~(\/ Contains(text, Lower(game.name))
         \/ (IF Truthy(game.developer)
             THEN Contains(text, Lower(game.developer[1]))
             ELSE FALSE))

\* filter_func on the item of game i with a toggle for the text test
filter_game_toggle(games, i) ==
    [games EXCEPT ![i].filtered = (filter_text # <<>> /\ ~games[i].filtered)]

\* the games after filter_func has run on the item of game i
filter_game(games, i) ==
    [games EXCEPT ![i].filtered = is_filtered(games[i], filter_text)]

filter_func(i) ==
    /\ i \in 1..Len(store)
    /\ Shown(store[i])
    /\ LET games == filter_game(store, i)
       IN  /\ store' = games
           /\ library_bin_child' = set_library_child(games)[1]
           /\ hidden_library_bin_child' = set_library_child(games)[2]
           /\ lastOp' = [op |-> "filter_func", game |-> i,
                         ret |-> ~games[i].filtered]
    /\ UNCHANGED <<visible_child, previous_page, show_hidden_enabled, search_text,
                   hidden_search_text, sort_state, toasts, importer, entered_from,
                   item1, item2,
                   library_sorted_by, hidden_library_sorted_by,
                   focus, search_mode, hidden_search_mode>>

\* the games after filter_func has run on the items of calls, one after the
\* other
RECURSIVE filter_calls(_, _)
filter_calls(games, calls) ==
    IF calls = <<>>
    THEN games
    ELSE filter_calls(filter_game(games, Head(calls)), Tail(calls))

\* the items of a library, in the order of the store
library_items(games, hidden) ==
    SelectSeq([i \in 1..Len(games) |-> i],
              LAMBDA i : Shown(games[i]) /\ games[i].hidden = hidden)

\* invalidate_filter() has the list widget call filter_func on each of the
\* library's items
invalidate_filter(games, hidden) ==
    filter_calls(games, library_items(games, hidden))

search_changed(hidden) ==
    /\ LET games == invalidate_filter(store, hidden)
       IN  /\ store' = games
           /\ library_bin_child' =
                  IF library_items(store, hidden) # <<>>
                  THEN set_library_child(games)[1]
                  ELSE library_bin_child
           /\ hidden_library_bin_child' =
                  IF library_items(store, hidden) # <<>>
                  THEN set_library_child(games)[2]
                  ELSE hidden_library_bin_child
    /\ lastOp' = [op |-> "search_changed", hidden |-> hidden]
    /\ UNCHANGED <<visible_child, previous_page, show_hidden_enabled, search_text,
                   hidden_search_text, sort_state, toasts, importer, entered_from,
                   item1, item2,
                   library_sorted_by, hidden_library_sorted_by,
                   focus, search_mode, hidden_search_mode>>

\* the user edits the text of the search entry of the visible library page
edit_search_entry(text) ==
    /\ visible_child = "library_view"
    /\ text # search_text
    /\ search_text' = text
    /\ lastOp' = [op |-> "edit_search_entry"]
    /\ UNCHANGED <<store, visible_child, previous_page, show_hidden_enabled,
                   hidden_search_text, library_bin_child, hidden_library_bin_child,
                   sort_state, toasts, importer, entered_from, item1, item2,
                   library_sorted_by, hidden_library_sorted_by,
                   focus, search_mode, hidden_search_mode>>

edit_hidden_search_entry(text) ==
    /\ visible_child = "hidden_library_view"
    /\ text # hidden_search_text
    /\ hidden_search_text' = text
    /\ lastOp' = [op |-> "edit_hidden_search_entry"]
    /\ UNCHANGED <<store, visible_child, previous_page, show_hidden_enabled,
                   search_text, library_bin_child, hidden_library_bin_child,
                   sort_state, toasts, importer, entered_from, item1, item2,
                   library_sorted_by, hidden_library_sorted_by,
                   focus, search_mode, hidden_search_mode>>

(***************************************************************************)
(* Navigation                                                              *)
(***************************************************************************)
LibraryPages == {"library_view", "hidden_library_view"}

\* the widgets that take the focus: the two search entries, the play button
\* of the details view and, for each library page, any other widget of it
Widgets == {"search_entry", "library", "hidden_search_entry", "hidden_library",
            "details_view_play_button"}

\* the page of the stack a widget is on
page_of(widget) ==
    IF widget \in {"search_entry", "library"} THEN "library_view"
    ELSE IF widget \in {"hidden_search_entry", "hidden_library"}
    THEN "hidden_library_view"
    ELSE IF widget = "details_view_play_button" THEN "details_view"
    ELSE "none"

\* self.stack.set_visible_child(next_page): the page that was visible is
\* unmapped, and the window's focus widget, when it is on that page, is unset
focus_after(next_page) ==
    IF next_page # visible_child /\ page_of(focus) = visible_child
    THEN "none"
    ELSE focus

\* navigate with previous_page assigned for every page
navigate_any_page(next_page) ==
    /\ previous_page' = next_page
    /\ show_hidden_enabled' =
           IF next_page \in LibraryPages
           THEN next_page = "library_view"
           ELSE show_hidden_enabled
    /\ visible_child' = next_page

\* navigate with set_enabled called for every page
navigate_any_enabled(next_page) ==
    /\ previous_page' =
           IF next_page \in LibraryPages THEN next_page ELSE previous_page
    /\ show_hidden_enabled' = (next_page = "library_view")
    /\ visible_child' = next_page

navigate(next_page) ==
    /\ IF next_page \in LibraryPages
       THEN /\ previous_page' = next_page
            /\ show_hidden_enabled' = (next_page = "library_view")
       ELSE UNCHANGED <<previous_page, show_hidden_enabled>>
    /\ visible_child' = next_page

NavigationOnly ==
    UNCHANGED <<store, search_text, hidden_search_text, library_bin_child,
                hidden_library_bin_child, sort_state, toasts, importer, item1, item2,
                library_sorted_by, hidden_library_sorted_by,
                search_mode, hidden_search_mode>>

show_details_view(i) ==
    /\ i \in 1..Len(store)
    /\ Shown(store[i])
    /\ IF visible_child # "details_view"
       THEN /\ navigate("details_view")
            /\ focus' = "details_view_play_button"
            /\ entered_from' = visible_child
       ELSE UNCHANGED <<visible_child, previous_page, show_hidden_enabled,
                        focus, entered_from>>
    /\ lastOp' = [op |-> "show_details_view", game |-> i]
    /\ NavigationOnly

\* the page on_go_to_parent_action navigates to
parent_page_library == "library_view"

parent_page ==
    IF previous_page = "hidden_library_view"
    THEN "hidden_library_view"
    ELSE "library_view"

\* the body of on_go_to_parent_action, which on_go_back_action calls
go_to_parent ==
    IF visible_child = "details_view"
    THEN /\ navigate(parent_page)
         /\ focus' = focus_after(parent_page)
    ELSE UNCHANGED <<visible_child, previous_page, show_hidden_enabled, focus>>

on_go_to_parent_action ==
    /\ go_to_parent
    /\ lastOp' = [op |-> "on_go_to_parent_action"]
    /\ UNCHANGED entered_from
    /\ NavigationOnly

\* the body of on_go_back_action, which on_escape_action calls
go_back ==
    IF visible_child = "hidden_library_view"
    THEN /\ navigate("library_view")
         /\ focus' = focus_after("library_view")
    ELSE IF visible_child = "details_view"
    THEN go_to_parent
    ELSE UNCHANGED <<visible_child, previous_page, show_hidden_enabled, focus>>

on_go_back_action ==
    /\ go_back
    /\ lastOp' = [op |-> "on_go_back_action"]
    /\ UNCHANGED entered_from
    /\ NavigationOnly

on_go_home_action ==
    /\ navigate("library_view")
    /\ focus' = focus_after("library_view")
    /\ lastOp' = [op |-> "on_go_home_action"]
    /\ UNCHANGED entered_from
    /\ NavigationOnly

\* the "show_hidden" action can be activated while it is enabled
on_show_hidden_action ==
    /\ show_hidden_enabled
    /\ navigate("hidden_library_view")
    /\ focus' = focus_after("hidden_library_view")
    /\ lastOp' = [op |-> "on_show_hidden_action"]
    /\ UNCHANGED entered_from
    /\ NavigationOnly

(***************************************************************************)
(* The window over a store: navigation, search and filtering               *)
(***************************************************************************)
Init ==
    /\ InitWindow
    /\ store \in Stores
    /\ library_bin_child = set_library_child(store)[1]
    /\ hidden_library_bin_child = set_library_child(store)[2]
    /\ item1 = DefaultItem
    /\ item2 = DefaultItem

Next ==
    \/ \E i \in 1..MaxGames : filter_func(i)
    \/ \E hidden \in BOOLEAN : search_changed(hidden)
    \/ \E text \in Queries : edit_search_entry(text)
    \/ \E text \in Queries : edit_hidden_search_entry(text)
    \/ \E i \in 1..MaxGames : show_details_view(i)
    \/ on_go_to_parent_action
    \/ on_go_back_action
    \/ on_go_home_action
    \/ on_show_hidden_action

Spec == Init /\ [][Next]_vars

\* the same window over a store whose games are all items of a library
InitFilter ==
    /\ InitWindow
    /\ store \in {games \in Stores : \A i \in 1..MaxGames : Shown(games[i])}
    /\ library_bin_child = set_library_child(store)[1]
    /\ hidden_library_bin_child = set_library_child(store)[2]
    /\ item1 = DefaultItem
    /\ item2 = DefaultItem

SpecFilter == InitFilter /\ [][Next]_vars

(***************************************************************************)
(* The search bars, the focus and the Escape key                           *)
(***************************************************************************)
\* what the search and focus handlers leave alone
SearchFrame ==
    UNCHANGED <<store, library_bin_child, hidden_library_bin_child, sort_state,
                toasts, importer, item1, item2, library_sorted_by,
                hidden_library_sorted_by, entered_from>>

\* search_bar.set_search_mode(on) followed by the handler's set_focus: turned
\* on, the entry is given the focus; turned off, the bar hides the entry,
\* which loses the focus when it has it
focus_after_search_mode(entry, on) ==
    IF on THEN entry
    ELSE IF focus = entry THEN "none"
    ELSE focus

\* on_toggle_search_action without search_entry.set_text("")
toggle_search_keep_text ==
    IF visible_child = "library_view"
    THEN /\ search_mode' = ~search_mode
         /\ focus' = focus_after_search_mode("search_entry", ~search_mode)
         /\ UNCHANGED <<search_text, hidden_search_mode, hidden_search_text>>
    ELSE IF visible_child = "hidden_library_view"
    THEN /\ hidden_search_mode' = ~hidden_search_mode
         /\ focus' = focus_after_search_mode("hidden_search_entry",
                                             ~hidden_search_mode)
         /\ UNCHANGED <<hidden_search_text, search_mode, search_text>>
    ELSE UNCHANGED <<search_mode, search_text, hidden_search_mode,
                     hidden_search_text, focus>>

\* the body of on_toggle_search_action, which on_escape_action calls
toggle_search ==
    IF visible_child = "library_view"
    THEN /\ search_mode' = ~search_mode
         /\ focus' = focus_after_search_mode("search_entry", ~search_mode)
         /\ search_text' = <<>>
         /\ UNCHANGED <<hidden_search_mode, hidden_search_text>>
    ELSE IF visible_child = "hidden_library_view"
    THEN /\ hidden_search_mode' = ~hidden_search_mode
         /\ focus' = focus_after_search_mode("hidden_search_entry",
                                             ~hidden_search_mode)
         /\ hidden_search_text' = <<>>
         /\ UNCHANGED <<search_mode, search_text>>
    ELSE UNCHANGED <<search_mode, search_text, hidden_search_mode,
                     hidden_search_text, focus>>

on_toggle_search_action ==
    /\ toggle_search
    /\ lastOp' = [op |-> "on_toggle_search_action",
                  search_mode |-> IF visible_child = "library_view"
                                  THEN search_mode
                                  ELSE IF visible_child = "hidden_library_view"
                                  THEN hidden_search_mode
                                  ELSE FALSE,
                  text |-> IF visible_child = "library_view"
                           THEN search_text
                           ELSE IF visible_child = "hidden_library_view"
                           THEN hidden_search_text
                           ELSE <<>>]
    /\ UNCHANGED <<visible_child, previous_page, show_hidden_enabled>>
    /\ SearchFrame

\* self.get_focus(): the widget of the window that has the focus, or None;
\* for a search entry it is the text widget inside the entry
get_focus == IF focus = "none" THEN None ELSE Some(focus)

\* entry.get_focus_child(): the child of the entry that has the focus, or
\* None when the focus is not inside the entry
get_focus_child(entry) == IF focus = entry THEN Some(focus) ELSE None

\* the condition of on_escape_action: `a == b or c` is `(a == b) or c`
escape_toggles_search ==
    \/ get_focus = get_focus_child("search_entry")
    \/ get_focus_child("hidden_search_entry") # None

on_escape_action ==
    /\ IF escape_toggles_search
       THEN /\ toggle_search
            /\ UNCHANGED <<visible_child, previous_page, show_hidden_enabled>>
       ELSE /\ go_back
            /\ UNCHANGED <<search_mode, search_text, hidden_search_mode,
                           hidden_search_text>>
    /\ lastOp' = [op |-> "on_escape_action",
                  focus |-> focus,
                  calls |-> IF escape_toggles_search
                            THEN "on_toggle_search_action"
                            ELSE "on_go_back_action"]
    /\ SearchFrame

\* the user moves the focus to a widget of the visible page; a search entry
\* can take it while its bar is in search mode
focus_changed(widget) ==
    /\ widget # focus
    /\ page_of(widget) = visible_child
    /\ widget = "search_entry" => search_mode
    /\ widget = "hidden_search_entry" => hidden_search_mode
    /\ focus' = widget
    /\ lastOp' = [op |-> "focus_changed"]
    /\ UNCHANGED <<visible_child, previous_page, show_hidden_enabled,
                   search_mode, search_text, hidden_search_mode,
                   hidden_search_text>>
    /\ SearchFrame

InitSearch ==
    /\ InitWindow
    /\ store \in {games \in Stores :
                    \A i \in 1..MaxGames :
                        Shown(games[i]) /\ ~games[i].hidden}
    /\ library_bin_child = set_library_child(store)[1]
    /\ hidden_library_bin_child = set_library_child(store)[2]
    /\ item1 = DefaultItem
    /\ item2 = DefaultItem

NextSearch ==
    \/ on_toggle_search_action
    \/ on_escape_action
    \/ \E widget \in Widgets : focus_changed(widget)
    \/ \E text \in Queries : edit_search_entry(text)
    \/ \E text \in Queries : edit_hidden_search_entry(text)
    \/ \E i \in 1..MaxGames : show_details_view(i)
    \/ on_go_to_parent_action
    \/ on_go_back_action
    \/ on_go_home_action
    \/ on_show_hidden_action

SpecSearch == InitSearch /\ [][NextSearch]_vars

(***************************************************************************)
(* The undo registry                                                       *)
(***************************************************************************)
ActionKinds == {"hide", "remove"}

InRegistry(key) == \E n \in 1..Len(toasts) : toasts[n] = key

\* self.toasts[key] = toast: a new key is appended, a key the dict holds
\* keeps its place
create_toast(registry, key) ==
    IF \E n \in 1..Len(registry) : registry[n] = key
    THEN registry
    ELSE Append(registry, key)

\* self.toasts.pop(key)
pop_last(registry, key) == SubSeq(registry, 1, Len(registry) - 1)

pop(registry, key) == SelectSeq(registry, LAMBDA k : k # key)

UndoOnly ==
    UNCHANGED <<visible_child, previous_page, show_hidden_enabled, search_text,
                hidden_search_text, library_bin_child, hidden_library_bin_child,
                sort_state, entered_from, item1, item2,
                   library_sorted_by, hidden_library_sorted_by,
                   focus, search_mode, hidden_search_mode>>

\* the hide button of a game: game.toggle_hidden() flips hidden and surfaces
\* an undo toast under (game, "hide")
on_hide_action(i) ==
    /\ i \in 1..Len(store)
    /\ Shown(store[i])
    /\ store' = [store EXCEPT ![i].hidden = ~store[i].hidden]
    /\ toasts' = create_toast(toasts, <<i, "hide">>)
    /\ lastOp' = [op |-> "on_hide_action", game |-> i]
    /\ UNCHANGED importer
    /\ UndoOnly

\* the remove button of a game: removed is set and an undo toast surfaces
\* under (game, "remove")
on_remove_game_action(i) ==
    /\ i \in 1..Len(store)
    /\ Shown(store[i])
    /\ store' = [store EXCEPT ![i].removed = TRUE]
    /\ toasts' = create_toast(toasts, <<i, "remove">>)
    /\ lastOp' = [op |-> "on_remove_game_action", game |-> i]
    /\ UNCHANGED importer
    /\ UndoOnly

\* the importer finishes a batch, which can then be undone
import_finished ==
    /\ importer # "pending"
    /\ importer' = "pending"
    /\ lastOp' = [op |-> "import_finished"]
    /\ UNCHANGED <<store, toasts>>
    /\ UndoOnly

\* the `if game:` block of on_undo_action for the key (i, undo): the games, the
\* registry, the calls made on collaborators and the error raised
undo_key(i, undo) ==
    LET games ==
            IF undo = "hide"
            THEN [store EXCEPT ![i].hidden = ~store[i].hidden]
            ELSE IF undo = "remove"
            THEN [store EXCEPT ![i].removed = FALSE]
            ELSE store
        calls ==
            IF undo = "hide" THEN <<"toggle_hidden">>
            ELSE IF undo = "remove" THEN <<"save", "update">>
            ELSE <<>>
    IN  IF InRegistry(<<i, undo>>)
        THEN [store |-> games, toasts |-> pop(toasts, <<i, undo>>),
              importer |-> importer, calls |-> Append(calls, "dismiss"),
              err |-> "none"]
        ELSE [store |-> games, toasts |-> toasts, importer |-> importer,
              calls |-> calls, err |-> "KeyError"]

\* on_undo_action with `if shared.importer:` for the importer test
undo_result_any_importer(i, undo) ==
    IF i = 0
    THEN IF importer # "absent"
         THEN [store |-> store, toasts |-> toasts, importer |-> "idle",
               calls |-> <<"undo_import">>, err |-> "none"]
         ELSE IF toasts = <<>>
         THEN [store |-> store, toasts |-> toasts, importer |-> importer,
               calls |-> <<>>, err |-> "none"]
         ELSE undo_key(toasts[Len(toasts)][1], toasts[Len(toasts)][2])
    ELSE undo_key(i, undo)

\* on_undo_action with the registry looked at before the importer
undo_result_registry_first(i, undo) ==
    IF i = 0
    THEN IF toasts # <<>>
         THEN undo_key(toasts[Len(toasts)][1], toasts[Len(toasts)][2])
         ELSE IF importer = "pending"
         THEN [store |-> store, toasts |-> toasts, importer |-> "idle",
               calls |-> <<"undo_import">>, err |-> "none"]
         ELSE [store |-> store, toasts |-> toasts, importer |-> importer,
               calls |-> <<>>, err |-> "none"]
    ELSE undo_key(i, undo)

\* on_undo_action(_widget, game, undo), game = 0 for None: what it leaves
undo_result(i, undo) ==
    IF i = 0
    THEN IF importer = "pending"
         THEN [store |-> store, toasts |-> toasts, importer |-> "idle",
               calls |-> <<"undo_import">>, err |-> "none"]
         ELSE IF toasts = <<>>
         THEN [store |-> store, toasts |-> toasts, importer |-> importer,
               calls |-> <<>>, err |-> "none"]
         ELSE undo_key(toasts[Len(toasts)][1], toasts[Len(toasts)][2])
    ELSE undo_key(i, undo)

on_undo_action(i, undo) ==
    /\ i \in 0..Len(store)
    /\ (i = 0) <=> (undo = "None")
    /\ store' = undo_result(i, undo).store
    /\ toasts' = undo_result(i, undo).toasts
    /\ importer' = undo_result(i, undo).importer
    /\ lastOp' = [op |-> "on_undo_action", game |-> i, undo |-> undo,
                  calls |-> undo_result(i, undo).calls,
                  err |-> undo_result(i, undo).err]
    /\ UndoOnly

\* a library of MaxGames games, none hidden, removed or blacklisted
InitUndo ==
    /\ InitWindow
    /\ store \in {games \in Stores :
                    \A i \in 1..MaxGames :
                        Shown(games[i]) /\ ~games[i].hidden}
    /\ library_bin_child = set_library_child(store)[1]
    /\ hidden_library_bin_child = set_library_child(store)[2]
    /\ item1 = DefaultItem
    /\ item2 = DefaultItem

NextUndo ==
    \/ \E i \in 1..MaxGames : on_hide_action(i)
    \/ \E i \in 1..MaxGames : on_remove_game_action(i)
    \/ import_finished
    \/ \E i \in 1..MaxGames, undo \in ActionKinds : on_undo_action(i, undo)
    \/ on_undo_action(0, "None")

SpecUndo == InitUndo /\ [][NextUndo]_vars

(***************************************************************************)
(* Claims about filtering, placeholders and navigation, checked under Spec *)
(***************************************************************************)
Filtered == lastOp.op = "filter_func"

\* whether text matches game: text is empty, or is, case-insensitively, a
\* substring of the name or of the developer the game has
Matches(game, text) ==
    \/ text = <<>>
    \/ \E k \in 0..Len(game.name) :
           k + Len(text) <= Len(game.name)
           /\ \A j \in 1..Len(text) :
                  LowerChar(game.name[k + j]) = LowerChar(text[j])
    \/ /\ game.developer # None
       /\ \E k \in 0..Len(game.developer[1]) :
              k + Len(text) <= Len(game.developer[1])
              /\ \A j \in 1..Len(text) :
                     LowerChar(game.developer[1][k + j]) = LowerChar(text[j])

\* the search text of the view a game belongs to
OwnSearchText(game) == IF game.hidden THEN hidden_search_text ELSE search_text

\* C1: filter_func returns true for a game iff the search text of the view
\* the game belongs to is empty or is, case-insensitively, a substring of the
\* game's name or developer; afterwards filtered is the negation of the
\* returned value.
C1_FilterByOwnView ==
    Filtered =>
        /\ lastOp.ret = Matches(store[lastOp.game], OwnSearchText(store[lastOp.game]))
        /\ store[lastOp.game].filtered = ~lastOp.ret

\* C2: a back action taken while Details is visible makes the library page
\* visible that was visible immediately before Details was entered.
C2_BackFromDetails ==
    [][(visible_child = "details_view"
        /\ (on_go_back_action \/ on_go_to_parent_action)) =>
           (visible_child' \in LibraryPages /\ visible_child' = entered_from)]_vars

\* C2 witness: a back action has left Details, entered from the hidden
\* library, for the hidden library
C2_Witness ==
    /\ lastOp.op = "on_go_back_action"
    /\ entered_from = "hidden_library_view"
    /\ visible_child = "hidden_library_view"

\* the members of a view's group: the games it shows
Group(hidden) ==
    {i \in 1..Len(store) : Shown(store[i]) /\ store[i].hidden = hidden}

\* C10: each bin holds the scroll container iff a member of its group is not
\* filtered, else the no-results notice iff the group is non-empty, else the
\* empty notice, whatever the order of the store.
C10_LibraryChild ==
    /\ library_bin_child =
           IF \E i \in Group(FALSE) : ~store[i].filtered THEN "scrolledwindow"
           ELSE IF Group(FALSE) # {} THEN "notice_no_results"
           ELSE "notice_empty"
    /\ hidden_library_bin_child =
           IF \E i \in Group(TRUE) : ~store[i].filtered THEN "hidden_scrolledwindow"
           ELSE IF Group(TRUE) # {} THEN "hidden_notice_no_results"
           ELSE "hidden_notice_empty"

\* C10 witness: filter_func has filtered out the last of two games of the
\* library, which shows the no-results notice
C10_Witness ==
    /\ Filtered
    /\ Cardinality(Group(FALSE)) >= 2
    /\ \A i \in Group(FALSE) : store[i].filtered
    /\ library_bin_child = "notice_no_results"

\* C16: whichever page is visible, filter_func on an item of the hidden
\* library decides with the hidden library's search text and on an item of the
\* library with the library's search text, and a filter pass over one view
\* changes the filtered flag of no game of the other view.
C16_IndependentContexts ==
    [][/\ \A i \in 1..MaxGames :
              filter_func(i) =>
                  store'[i].filtered =
                      is_filtered(store[i], Lower(OwnSearchText(store[i])))
       /\ \A hidden \in BOOLEAN :
              search_changed(hidden) =>
                  \A j \in Group(~hidden) :
                      store'[j].filtered = store[j].filtered]_vars

\* the calls of filter_func on the items of a view the list widget can make:
\* every item at least once, in any order
MaxCalls == 3

CallOrders(hidden) ==
    {calls \in UNION {[1..n -> Group(hidden)] : n \in 1..MaxCalls} :
        {calls[k] : k \in 1..Len(calls)} = Group(hidden)}

\* C17: with the games, the search texts and the visible page unchanged,
\* filter_func called on the items of a view any number of times in any order
\* ends with the filtered flags and the containers of both views that a
\* single pass over the view ends with.
C17_FilterPasses ==
    \A hidden \in BOOLEAN :
        \A calls \in CallOrders(hidden) :
            /\ filter_calls(store, calls) = invalidate_filter(store, hidden)
            /\ set_library_child(filter_calls(store, calls)) =
                   set_library_child(invalidate_filter(store, hidden))

\* C17 witness: a pass over a library of two games is complete, it has
\* filtered one game out and kept the other, and filter_func ran last
C17_Witness ==
    /\ Filtered
    /\ \E i, j \in Group(store[lastOp.game].hidden) :
           store[i].filtered /\ ~store[j].filtered
    /\ store = invalidate_filter(store, store[lastOp.game].hidden)
    /\ \E calls \in CallOrders(store[lastOp.game].hidden) : Len(calls) = MaxCalls

(***************************************************************************)
(* Claims about the undo registry, checked under SpecUndo                  *)
(***************************************************************************)
\* registry' is registry with the entry of key taken out, the others in place
Without(registry, key, registry2) ==
    \E n \in 1..Len(registry) :
        /\ registry[n] = key
        /\ registry2 = SubSeq(registry, 1, n - 1)
                           \o SubSeq(registry, n + 1, Len(registry))

\* an undo of a key the registry holds dismisses the toast, removes exactly
\* that key and leaves the other games alone
UndoKeyFrame(i, undo) ==
    /\ lastOp'.err = "none"
    /\ lastOp'.calls[Len(lastOp'.calls)] = "dismiss"
    /\ Without(toasts, <<i, undo>>, toasts')
    /\ \A j \in 1..Len(store) : j # i => store'[j] = store[j]
    /\ undo = "remove" =>
           /\ store' = [store EXCEPT ![i].removed = FALSE]
           /\ lastOp'.calls = <<"save", "update", "dismiss">>

\* C3 as claimed: an undo with an explicit key the registry holds reverses the
\* action ('hide': hidden becomes false; 'remove': removed becomes false, then
\* save() and update()), dismisses the toast and removes exactly that key,
\* every other entry and every other game unchanged.
C3_UndoMakesVisible ==
    [][\A i \in 1..MaxGames, undo \in ActionKinds :
           (InRegistry(<<i, undo>>) /\ on_undo_action(i, undo)) =>
               /\ UndoKeyFrame(i, undo)
               /\ undo = "hide" =>
                      /\ store' = [store EXCEPT ![i].hidden = FALSE]
                      /\ lastOp'.calls = <<"toggle_hidden", "dismiss">>]_vars

\* C3 as amended: as claimed, but for 'hide' game.toggle_hidden(False) flips
\* hidden: it becomes false when the toast came from hiding the game and true
\* when it came from unhiding it.
C3_UndoReverses ==
    [][\A i \in 1..MaxGames, undo \in ActionKinds :
           (InRegistry(<<i, undo>>) /\ on_undo_action(i, undo)) =>
               /\ UndoKeyFrame(i, undo)
               /\ undo = "hide" =>
                      /\ store' = [store EXCEPT ![i].hidden = ~store[i].hidden]
                      /\ lastOp'.calls = <<"toggle_hidden", "dismiss">>]_vars

\* C3 witness: the hide toast of a game was undone by its key, which is gone
\* from the registry while a later entry is still there
C3_Witness ==
    /\ lastOp.op = "on_undo_action"
    /\ lastOp.game # 0
    /\ lastOp.undo = "hide"
    /\ lastOp.err = "none"
    /\ ~InRegistry(<<lastOp.game, "hide">>)
    /\ ~store[lastOp.game].hidden
    /\ toasts # <<>>

\* C4: an undo with the explicit key of an undo that has just removed it from
\* the registry is a no-op: no error, no flag and no registry entry changes.
C4_SecondUndoNoOp ==
    [][\A i \in 1..MaxGames, undo \in ActionKinds :
           (/\ lastOp.op = "on_undo_action"
            /\ lastOp.game = i
            /\ lastOp.undo = undo
            /\ lastOp.err = "none"
            /\ on_undo_action(i, undo)) =>
               /\ lastOp'.err = "none"
               /\ store' = store
               /\ toasts' = toasts]_vars

GlobalUndone == lastOp.op = "on_undo_action" /\ lastOp.game = 0

\* C12: a global undo with an empty registry and an importer that is absent
\* or has no imported and no removed ids is a silent no-op: no error, no
\* call on a collaborator, and no game flag, registry entry or importer state
\* changes.
C12_GlobalUndoNoOp ==
    [][(/\ toasts = <<>>
        /\ importer # "pending"
        /\ on_undo_action(0, "None")) =>
           /\ lastOp'.err = "none"
           /\ lastOp'.calls = <<>>
           /\ store' = store
           /\ toasts' = toasts
           /\ importer' = importer]_vars

\* C12 witness: a global undo has run with the registry empty and an importer
\* that has no batch left, after a game was hidden
C12_Witness ==
    /\ GlobalUndone
    /\ lastOp.calls = <<>>
    /\ toasts = <<>>
    /\ importer = "idle"
    /\ \E i \in 1..Len(store) : store[i].hidden

\* C13: a global undo while the importer has a pending batch calls
\* importer.undo_import() exactly once and nothing else, and leaves the
\* registry and every game's flags unchanged, also when the registry is not
\* empty.
C13_ImporterFirst ==
    [][(importer = "pending" /\ on_undo_action(0, "None")) =>
           /\ lastOp'.err = "none"
           /\ lastOp'.calls = <<"undo_import">>
           /\ store' = store
           /\ toasts' = toasts]_vars

\* C13 witness: the importer's batch was undone while the registry held two
\* entries
C13_Witness ==
    /\ GlobalUndone
    /\ lastOp.calls = <<"undo_import">>
    /\ Len(toasts) >= 2

\* the key under which the handler that ran last surfaced its toast
SurfacedLast ==
    <<lastOp.game, IF lastOp.op = "on_hide_action" THEN "hide" ELSE "remove">>

\* C19: a global undo with no pending importer batch and a non-empty registry
\* undoes the entry surfaced most recently among those in the registry, also
\* when that key was in the registry already, and removes that entry only:
\* right after a hide or remove action it removes that action's entry.
C19_UndoMostRecent ==
    [][(/\ lastOp.op \in {"on_hide_action", "on_remove_game_action"}
        /\ importer # "pending"
        /\ on_undo_action(0, "None")) =>
           Without(toasts, SurfacedLast, toasts')]_vars

(***************************************************************************)
(* Claims about sort_func, checked under SpecSort                          *)
(***************************************************************************)
\* s < t in the ordering of str, stated by the first position that differs
LexLess(s, t) ==
    \E k \in 1..Len(t) :
        /\ k - 1 <= Len(s)
        /\ \A i \in 1..(k - 1) : s[i] = t[i]
        /\ (k > Len(s) \/ s[k] < t[k])

Compared == lastOp.op = "sort_func"

LowerName1 == Lower(item1.name)

LowerName2 == Lower(item2.name)

\* C5: for two items whose names differ case-insensitively, sort_func orders
\* them by lowercase name ascending in 'a-z' mode (negative iff the first name
\* is the smaller) and by lowercase name descending in 'z-a' mode.
C5_NameOrder ==
    (Compared /\ LowerName1 # LowerName2) =>
        /\ lastOp.ret \in {-1, 1}
        /\ sort_state = "a-z" =>
               (lastOp.ret < 0 <=> LexLess(LowerName1, LowerName2))
        /\ sort_state = "z-a" =>
               (lastOp.ret < 0 <=> LexLess(LowerName2, LowerName1))

\* C5 witness: in 'a-z' mode "a" was compared with "B" and sorts before it
C5_Witness ==
    /\ Compared
    /\ sort_state = "a-z"
    /\ item1.name = <<97>>
    /\ item2.name = <<66>>
    /\ lastOp.ret = -1

\* C6: for two items with distinct 'added' timestamps, sort_func places the
\* larger timestamp first in 'newest' mode and the smaller one first in
\* 'oldest' mode, whatever the numbers of digits.
C6_AddedOrder ==
    (Compared /\ item1.added # item2.added) =>
        /\ sort_state = "newest" => (lastOp.ret < 0 <=> item1.added > item2.added)
        /\ sort_state = "oldest" => (lastOp.ret < 0 <=> item1.added < item2.added)

BothPlayed == item1.last_played # None /\ item2.last_played # None

\* C7 as claimed: in 'last_played' mode two items whose last_played values
\* differ are ordered by last_played ascending.
C7_LastPlayedAscending ==
    (Compared /\ sort_state = "last_played" /\ BothPlayed
        /\ item1.last_played # item2.last_played) =>
        (lastOp.ret < 0 <=> item1.last_played[1] < item2.last_played[1])

LastPlayedText1 == Lower(StrOptInt(item1.last_played))

LastPlayedText2 == Lower(StrOptInt(item2.last_played))

\* C7 as amended: in 'last_played' mode two items whose last_played values
\* differ are ordered by last_played descending, the values compared as the
\* lowercased text str() gives: the item whose text is the greater sorts
\* first, which for two timestamps of the same number of digits is the item
\* with the larger timestamp.
C7_LastPlayedDescending ==
    (Compared /\ sort_state = "last_played"
        /\ item1.last_played # item2.last_played) =>
        /\ lastOp.ret \in {-1, 1}
        /\ lastOp.ret < 0 <=> LexLess(LastPlayedText2, LastPlayedText1)
        /\ (BothPlayed /\ Len(LastPlayedText1) = Len(LastPlayedText2)) =>
               (lastOp.ret < 0 <=> item1.last_played[1] > item2.last_played[1])

\* C7 witness: in 'last_played' mode 11 was compared with 10 and sorts first
C7_Witness ==
    /\ Compared
    /\ sort_state = "last_played"
    /\ item1.last_played = Some(11)
    /\ item2.last_played = Some(10)
    /\ lastOp.ret = -1

KeysEqual ==
    \/ sort_state \in {"newest", "oldest"} /\ item1.added = item2.added
    \/ sort_state = "last_played" /\ item1.last_played = item2.last_played

\* C8: in a non-name mode, when the two items' key values are equal (or both
\* absent), sort_func falls back to ascending name order: the item with the
\* case-insensitively smaller name sorts first.
C8_TieAscendingName ==
    (Compared /\ KeysEqual /\ LowerName1 # LowerName2) =>
        (lastOp.ret < 0 <=> LexLess(LowerName1, LowerName2))

\* C9: in every mode sort_func is a comparator: sort_func(a, b) is
\* -sort_func(b, a), and a <= b and b <= c imply a <= c.
C9_Comparator ==
    Compared =>
        /\ lastOp.ret = -sort_func(item2, item1)
        /\ \A c \in Items :
               (lastOp.ret <= 0 /\ sort_func(item2, c) <= 0) =>
                   sort_func(item1, c) <= 0

\* C20: after every on_sort_action sort_state is the selected mode and the
\* order of both the library and the hidden library has been recomputed with
\* it, so neither view keeps the order of a previous mode.
C20_BothViewsResorted ==
    lastOp.op = "on_sort_action" =>
        /\ sort_state = lastOp.state
        /\ library_sorted_by = sort_state
        /\ hidden_library_sorted_by = sort_state

(***************************************************************************)
(* Claims about search, focus and navigation, checked under SpecSearch     *)
(***************************************************************************)
SearchEntries == {"search_entry", "hidden_search_entry"}

\* C11: on_escape_action calls on_toggle_search_action only when one of the
\* two search entries has the focus, and search mode is then off afterwards;
\* in every other focus state (another widget, or no widget) it calls
\* on_go_back_action and changes no search-mode flag and no search text.
C11_EscapeByFocus ==
    [][on_escape_action =>
           IF focus \in SearchEntries
           THEN /\ lastOp'.calls = "on_toggle_search_action"
                /\ focus = "search_entry" => ~search_mode'
                /\ focus = "hidden_search_entry" => ~hidden_search_mode'
           ELSE /\ lastOp'.calls = "on_go_back_action"
                /\ UNCHANGED <<search_mode, hidden_search_mode, search_text,
                               hidden_search_text>>]_vars

\* C15: on_toggle_search_action while Library or HiddenLibrary is visible
\* flips the search-mode flag of that page's bar only and leaves that page's
\* search text empty, the other view's flag and text unchanged; while Details
\* is visible it changes nothing.
C15_ToggleSearch ==
    [][on_toggle_search_action =>
           IF visible_child = "library_view"
           THEN /\ search_mode' = ~search_mode
                /\ search_text' = <<>>
                /\ UNCHANGED <<hidden_search_mode, hidden_search_text>>
           ELSE IF visible_child = "hidden_library_view"
           THEN /\ hidden_search_mode' = ~hidden_search_mode
                /\ hidden_search_text' = <<>>
                /\ UNCHANGED <<search_mode, search_text>>
           ELSE UNCHANGED <<store, visible_child, previous_page,
                            show_hidden_enabled, search_text, hidden_search_text,
                            library_bin_child, hidden_library_bin_child,
                            sort_state, toasts, importer, entered_from, focus,
                            search_mode, hidden_search_mode>>]_vars

\* C15 witness: the search of the hidden library, which held a text, was
\* toggled off and its text cleared while the library's search stayed on
\* with its text
C15_Witness ==
    /\ lastOp.op = "on_toggle_search_action"
    /\ visible_child = "hidden_library_view"
    /\ lastOp.search_mode
    /\ lastOp.text # <<>>
    /\ ~hidden_search_mode
    /\ hidden_search_text = <<>>
    /\ search_mode
    /\ search_text # <<>>

\* C14: in every state reached by navigation events (show details, show
\* hidden, go home, go back, go to parent, escape) previous_page is Library or
\* HiddenLibrary, never Details, and while a library page is visible
\* previous_page is the visible page.
C14_PreviousPage ==
    /\ previous_page \in LibraryPages
    /\ visible_child \in LibraryPages => previous_page = visible_child

\* C14 witness: Escape, with the play button focused, has gone back from
\* Details to the hidden library, from which Details was entered
C14_Witness ==
    /\ lastOp.op = "on_escape_action"
    /\ lastOp.calls = "on_go_back_action"
    /\ lastOp.focus = "details_view_play_button"
    /\ entered_from = "hidden_library_view"
    /\ visible_child = "hidden_library_view"
    /\ previous_page = "hidden_library_view"

\* C18: after a step that leaves a library page visible 'show_hidden' is
\* enabled iff that page is Library, so it is disabled whenever HiddenLibrary
\* is visible; it is enabled iff previous_page is Library; and entering
\* Details does not change it.
C18_ShowHiddenEnabled ==
    [][/\ visible_child' \in LibraryPages =>
              show_hidden_enabled' = (visible_child' = "library_view")
       /\ show_hidden_enabled' = (previous_page' = "library_view")
       /\ (visible_child # "details_view" /\ visible_child' = "details_view") =>
              show_hidden_enabled' = show_hidden_enabled]_vars

\* C18 witness: Details was entered from the hidden library, and
\* 'show_hidden' is still disabled
C18_Witness ==
    /\ lastOp.op = "show_details_view"
    /\ visible_child = "details_view"
    /\ previous_page = "hidden_library_view"
    /\ ~show_hidden_enabled

==============================================================================
